---- MODULE Spec2Model ----
(***************************************************************************)
(* mstar_at_multi_zobs (chopperhack19/sfr_history/mstar_mhalo_at_multiz.py) *)
(* as a state machine: one call of the function, stepped through its time  *)
(* loop and its halo loop.                                                 *)
(*                                                                         *)
(* Arrays are functions over 0..n-1, as in the source.                     *)
(*                                                                         *)
(* Numbers.  The source computes in float64 with exp, log, log10 and real  *)
(* powers, which TLA+ does not have.  The three fitting functions          *)
(* (halo mass, vmax, sfr) are therefore represented by integer stand-ins   *)
(* that keep what the control flow and the indexing can observe: which     *)
(* arguments each value depends on (halo_mass on mp_z0 and z only; vmax on *)
(* halo_mass and z; sfr on vmax, z and the coefficients), that             *)
(* halo_mass = mp_z0 at z = 0, that sfr > 0, and that different            *)
(* (mp_z0, z) give different values.  The numeric values of the fits and   *)
(* float rounding are outside this model.  Times are multiples of 10, so   *)
(* that 0.9*times[0] is exact.                                             *)
(***************************************************************************)
EXTENDS Integers, FiniteSets, Sequences, TLC

\* ------------------------------------------------------------------ bounds
MaxHalos == 2
MaxTimes == 3

MpVals == {1, 2}                          \* peak masses (units of 100)
ZVals == 0..(MaxTimes - 1)                \* redshifts
TimeVals == {10 * i : i \in 1..MaxTimes}  \* ages
CoefVals == {1, 2}                        \* two settings of the keyword coefficients

\* ------------------------------------------------------------------ state
VARIABLES
    core_mpeak_at_z0,   \* input: [0..nhalos-1 -> mass]
    times,              \* input: [0..ntimes-1 -> age]
    redshifts,          \* input: [0..ntimes-1 -> z]
    output_indices,     \* input: [0..ntimes_out-1 -> index into times]
    coef,               \* input: the coefficient keyword arguments
    results_in,         \* the results buffer as the caller passed it
    results,            \* the results buffer, mutated in place
    last_time,          \* _last_time
    iout,
    itime,
    ihalo,
    dt,
    next_output_indx,
    pc,                 \* "time": at line 63; "halo": at line 74; "done"; "fault"
    hpc,                \* per halo, position in the loop body when halos run interleaved
    reg,                \* per halo, the value loaded by the += of line 125
    nwrites,            \* per buffer index, number of stores so far in this call
    accessed,           \* per halo, buffer indices read or written while processing it
    oob                 \* indices past the end of the buffer that were stored to

vars == <<core_mpeak_at_z0, times, redshifts, output_indices, coef, results_in,
          results, last_time, iout, itime, ihalo, dt, next_output_indx, pc,
          hpc, reg, nwrites, accessed, oob>>

inputs == <<core_mpeak_at_z0, times, redshifts, output_indices, coef, results_in>>

\* ------------------------------------------------------------------ helpers
Size(arr) == Cardinality(DOMAIN arr)

nhalos == Size(core_mpeak_at_z0)
ntimes == Size(times)
ntimes_out == Size(output_indices)
nobs_out == 3

StrictlyIncreasing(arr) ==
    \A i, j \in DOMAIN arr : i < j => arr[i] < arr[j]

StrictlyDecreasing(arr) ==
    \A i, j \in DOMAIN arr : i < j => arr[i] > arr[j]

\* ------------------------------------------------------------------ index arithmetic
\* Variant: the accumulator kept in the first slot instead of the last.
final_mstar_indx_offset_first(nto, nh) == 0

final_mstar_indx_offset(nto, nh) == (nto - 1) * nh * nobs_out

mstar_indx_offset(io, nh) == io * nh * nobs_out

\* Variant: the sfr sub-block one entry, not one population, after the mstar one.
sfr_indx_offset_unit(io, nh) == io * nh * nobs_out + 1

\* Variant: sub-blocks interleaved per halo instead of one after the other.
sfr_indx_offset_shifted(io, nh) == io * nh * nobs_out + nh - 1

sfr_indx_offset(io, nh) == mstar_indx_offset(io, nh) + nh

\* Variant: the halo-mass sub-block placed on the sfr sub-block.
mhalo_indx_offset_on_sfr(io, nh) == io * nh * nobs_out + nh

mhalo_indx_offset(io, nh) == mstar_indx_offset(io, nh) + 2 * nh

\* ------------------------------------------------------------------ fitting functions (stand-ins)
halo_mass_at(mp_z0, z) == (100 * mp_z0) \div (1 + 2 * z)

vmax_at(halo_mass, z) == halo_mass \div 2 + z

sfr_at(vmax, z, c) == c * (vmax + 3 * z) + 1

halo_mass_of(mp_z0, z) == halo_mass_at(mp_z0, z)

sfr_of(mp_z0, z, c) == sfr_at(vmax_at(halo_mass_at(mp_z0, z), z), z, c)

\* ------------------------------------------------------------------ time stepping
\* Variant: integration started from time zero.
initial_last_time_zero(t0) == 0

initial_last_time(t0) == (9 * t0) \div 10

\* Variant: the interval taken with the wrong sign.
step_dt_reversed(t, last) == last - t

step_dt(t, last) == t - last

\* Variant: = instead of +=.
accumulate_overwrite(old, sfr, d) == sfr * d

accumulate(old, sfr, d) == old + sfr * d

is_output_step(it, nxt) == it = nxt

\* Variant: the cursor never advanced.
advance_cursor_stuck(io, it, nxt) == io

advance_cursor(io, it, nxt) == IF is_output_step(it, nxt) THEN io + 1 ELSE io

\* A store into the buffer; a store past its end leaves the buffer as it is
\* (the action records it in oob).
Store(res, i, v) == IF i \in DOMAIN res THEN [res EXCEPT ![i] = v] ELSE res

\* The indices the snapshot of lines 128-130 stores to.
snapshot_indices(io, nh, ih) ==
    {mstar_indx_offset(io, nh) + ih,
     sfr_indx_offset(io, nh) + ih,
     mhalo_indx_offset(io, nh) + ih}

\* Lines 128-130 on a buffer whose accumulator entry is already updated.
snapshot(res, mp, z, c, nh, nto, ih, io) ==
    LET fin == final_mstar_indx_offset(nto, nh) + ih
        r1 == Store(res, mstar_indx_offset(io, nh) + ih, res[fin])
        r2 == Store(r1, sfr_indx_offset(io, nh) + ih, sfr_of(mp[ih], z, c))
    IN  Store(r2, mhalo_indx_offset(io, nh) + ih, halo_mass_of(mp[ih], z))

\* Lines 75-130 for one halo: the buffer after the body.
halo_body(res, mp, z, c, nto, ih, it, io, d, nxt) ==
    LET nh == Size(mp)
        fin == final_mstar_indx_offset(nto, nh) + ih
        r0 == [res EXCEPT ![fin] = accumulate(res[fin], sfr_of(mp[ih], z, c), d)]
    IN  IF is_output_step(it, nxt)
        THEN snapshot(r0, mp, z, c, nh, nto, ih, io)
        ELSE r0

\* ------------------------------------------------------------------ the call as a function
\* The whole call on a buffer res0, for inputs whose cursor stays inside
\* output_indices (an out-of-range read is taken as "no match").
RECURSIVE halo_loop(_, _, _, _, _, _, _, _, _, _)
halo_loop(res, mp, z, c, nto, ih, it, io, d, nxt) ==
    IF ih = Size(mp) THEN res
    ELSE halo_loop(halo_body(res, mp, z, c, nto, ih, it, io, d, nxt),
                   mp, z, c, nto, ih + 1, it, io, d, nxt)

RECURSIVE time_loop(_, _, _, _, _, _, _, _, _)
time_loop(res, mp, ts, zs, oi, c, it, io, last) ==
    IF it = Size(ts) THEN res
    ELSE LET nxt == IF io \in DOMAIN oi THEN oi[io] ELSE -1
             d == step_dt(ts[it], last)
         IN  time_loop(halo_loop(res, mp, zs[it], c, Size(oi), 0, it, io, d, nxt),
                       mp, ts, zs, oi, c, it + 1, advance_cursor(io, it, nxt), ts[it])

run(res0, mp, ts, zs, oi, c) ==
    time_loop(res0, mp, ts, zs, oi, c, 0, 0, initial_last_time(ts[0]))

\* ------------------------------------------------------------------ buffers
BufLen(nh, nto) == nh * nto * nobs_out

ZeroBuf(nh, nto) == [i \in 0..(BufLen(nh, nto) - 1) |-> 0]

\* An uninitialised buffer (numpy.empty): arbitrary, pairwise different contents.
JunkBuf(nh, nto) == [i \in 0..(BufLen(nh, nto) - 1) |-> 1000 + 7 * i]

\* ------------------------------------------------------------------ Init
Arrays(n, S) == [0..(n - 1) -> S]

Init ==
    /\ \E nh \in 1..MaxHalos : core_mpeak_at_z0 \in Arrays(nh, MpVals)
    /\ \E nt \in 1..MaxTimes :
          /\ times \in {a \in Arrays(nt, TimeVals) : StrictlyIncreasing(a)}
          /\ redshifts \in {a \in Arrays(nt, ZVals) : StrictlyDecreasing(a)}
          /\ \E nto \in 1..nt :
                output_indices \in
                    {a \in Arrays(nto, 0..(nt - 1)) : StrictlyIncreasing(a)}
    /\ coef \in CoefVals
    /\ results_in \in {ZeroBuf(nhalos, ntimes_out), JunkBuf(nhalos, ntimes_out)}
    /\ results = results_in
    /\ last_time = initial_last_time(times[0])
    /\ iout = 0
    /\ itime = 0
    /\ ihalo = 0
    /\ dt = 0
    /\ next_output_indx = 0
    /\ pc = "time"
    /\ hpc = [h \in DOMAIN core_mpeak_at_z0 |-> "load"]
    /\ reg = [h \in DOMAIN core_mpeak_at_z0 |-> 0]
    /\ nwrites = [i \in DOMAIN results_in |-> 0]
    /\ accessed = [h \in DOMAIN core_mpeak_at_z0 |-> {}]
    /\ oob = {}

\* ------------------------------------------------------------------ actions
\* What an out-of-range read of output_indices can return.
Garbage == {-1} \cup (0..(ntimes - 1))

\* Lines 64-72 with the cursor inside output_indices.
TimeStepBegin ==
    /\ pc = "time"
    /\ itime < ntimes
    /\ iout \in DOMAIN output_indices
    /\ dt' = step_dt(times[itime], last_time)
    /\ next_output_indx' = output_indices[iout]
    /\ ihalo' = 0
    /\ pc' = "halo"
    /\ UNCHANGED <<inputs, results, last_time, iout, itime, hpc, reg, nwrites,
                   accessed, oob>>

\* Lines 64-72 with the cursor past the end of output_indices: line 68 reads
\* outside the array (no bounds check under njit) and gets whatever is there.
TimeStepBeginOob ==
    /\ pc = "time"
    /\ itime < ntimes
    /\ iout \notin DOMAIN output_indices
    /\ dt' = step_dt(times[itime], last_time)
    /\ \E g \in Garbage : next_output_indx' = g
    /\ ihalo' = 0
    /\ pc' = "halo"
    /\ UNCHANGED <<inputs, results, last_time, iout, itime, hpc, reg, nwrites,
                   accessed, oob>>

\* The same read, ending the call (IndexError without njit, a fault with it).
OobFault ==
    /\ pc = "time"
    /\ itime < ntimes
    /\ iout \notin DOMAIN output_indices
    /\ pc' = "fault"
    /\ UNCHANGED <<inputs, results, last_time, iout, itime, ihalo, dt,
                   next_output_indx, hpc, reg, nwrites, accessed, oob>>

\* Bookkeeping of one halo's accumulate (line 125).
CountAccumulate(nw, ih) ==
    LET fin == final_mstar_indx_offset(ntimes_out, nhalos) + ih
    IN  [nw EXCEPT ![fin] = @ + 1]

\* Bookkeeping of one halo's snapshot (lines 128-130).
CountSnapshot(nw, ih) ==
    [i \in DOMAIN nw |->
        IF i \in snapshot_indices(iout, nhalos, ih) THEN nw[i] + 1 ELSE nw[i]]

TouchedBy(ih) ==
    {final_mstar_indx_offset(ntimes_out, nhalos) + ih}
    \cup (IF is_output_step(itime, next_output_indx)
          THEN snapshot_indices(iout, nhalos, ih) ELSE {})

OobBy(ih) ==
    IF is_output_step(itime, next_output_indx)
    THEN snapshot_indices(iout, nhalos, ih) \ DOMAIN results
    ELSE {}

\* Lines 75-130 for halo ihalo, in the order of the source.
HaloStep ==
    /\ pc = "halo"
    /\ ihalo < nhalos
    /\ results' = halo_body(results, core_mpeak_at_z0, redshifts[itime], coef,
                            ntimes_out, ihalo, itime, iout, dt, next_output_indx)
    /\ nwrites' = IF is_output_step(itime, next_output_indx)
                  THEN CountSnapshot(CountAccumulate(nwrites, ihalo), ihalo)
                  ELSE CountAccumulate(nwrites, ihalo)
    /\ accessed' = [accessed EXCEPT ![ihalo] = @ \cup TouchedBy(ihalo)]
    /\ oob' = oob \cup OobBy(ihalo)
    /\ ihalo' = ihalo + 1
    /\ UNCHANGED <<inputs, last_time, iout, itime, dt, next_output_indx, pc,
                   hpc, reg>>

\* Lines 132-134, and back to line 63.
TimeStepEnd ==
    /\ pc = "halo"
    /\ ihalo = nhalos
    /\ last_time' = times[itime]
    /\ iout' = advance_cursor(iout, itime, next_output_indx)
    /\ itime' = itime + 1
    /\ pc' = "time"
    /\ UNCHANGED <<inputs, results, ihalo, dt, next_output_indx, hpc, reg,
                   nwrites, accessed, oob>>

\* The time loop is exhausted: the function returns.
Return ==
    /\ pc = "time"
    /\ itime = ntimes
    /\ pc' = "done"
    /\ UNCHANGED <<inputs, results, last_time, iout, itime, ihalo, dt,
                   next_output_indx, hpc, reg, nwrites, accessed, oob>>

Next ==
    \/ TimeStepBegin
    \/ TimeStepBeginOob
    \/ OobFault
    \/ HaloStep
    \/ TimeStepEnd
    \/ Return

Spec == Init /\ [][Next]_vars

\* ------------------------------------------------------------------ halos interleaved
\* The halo loop of one timestep with its iterations run by independent
\* workers: every halo goes through the body of lines 75-130 in three steps
\* (the load and the store of the += of line 125, then lines 127-130), and
\* the steps of different halos interleave freely.  Timesteps stay in order.
fin_of(h) == final_mstar_indx_offset(ntimes_out, nhalos) + h

ParLoad(h) ==
    /\ pc = "halo"
    /\ hpc[h] = "load"
    /\ reg' = [reg EXCEPT ![h] = results[fin_of(h)]]
    /\ accessed' = [accessed EXCEPT ![h] = @ \cup {fin_of(h)}]
    /\ hpc' = [hpc EXCEPT ![h] = "store"]
    /\ UNCHANGED <<inputs, results, last_time, iout, itime, ihalo, dt,
                   next_output_indx, pc, nwrites, oob>>

ParStore(h) ==
    /\ pc = "halo"
    /\ hpc[h] = "store"
    /\ results' = [results EXCEPT ![fin_of(h)] =
                      accumulate(reg[h],
                                 sfr_of(core_mpeak_at_z0[h], redshifts[itime], coef),
                                 dt)]
    /\ nwrites' = CountAccumulate(nwrites, h)
    /\ hpc' = [hpc EXCEPT ![h] = "snap"]
    /\ UNCHANGED <<inputs, last_time, iout, itime, ihalo, dt, next_output_indx,
                   pc, reg, accessed, oob>>

ParSnap(h) ==
    /\ pc = "halo"
    /\ hpc[h] = "snap"
    /\ IF is_output_step(itime, next_output_indx)
       THEN /\ results' = snapshot(results, core_mpeak_at_z0, redshifts[itime],
                                   coef, nhalos, ntimes_out, h, iout)
            /\ nwrites' = CountSnapshot(nwrites, h)
       ELSE UNCHANGED <<results, nwrites>>
    /\ accessed' = [accessed EXCEPT ![h] = @ \cup TouchedBy(h)]
    /\ oob' = oob \cup OobBy(h)
    /\ hpc' = [hpc EXCEPT ![h] = "end"]
    /\ UNCHANGED <<inputs, last_time, iout, itime, ihalo, dt, next_output_indx,
                   pc, reg>>

\* Lines 132-134 once every halo has finished the timestep.
ParTimeStepEnd ==
    /\ pc = "halo"
    /\ \A h \in DOMAIN hpc : hpc[h] = "end"
    /\ last_time' = times[itime]
    /\ iout' = advance_cursor(iout, itime, next_output_indx)
    /\ itime' = itime + 1
    /\ pc' = "time"
    /\ hpc' = [h \in DOMAIN hpc |-> "load"]
    /\ UNCHANGED <<inputs, results, ihalo, dt, next_output_indx, reg, nwrites,
                   accessed, oob>>

ParNext ==
    \/ TimeStepBegin
    \/ TimeStepBeginOob
    \/ OobFault
    \/ \E h \in DOMAIN hpc : ParLoad(h)
    \/ \E h \in DOMAIN hpc : ParStore(h)
    \/ \E h \in DOMAIN hpc : ParSnap(h)
    \/ ParTimeStepEnd
    \/ Return

ParSpec == Init /\ [][ParNext]_vars

\* ------------------------------------------------------------------ vocabulary of the properties
Done == pc = "done"

ZeroInit == results_in = ZeroBuf(nhalos, ntimes_out)

LastRequested == output_indices[ntimes_out - 1]

EndsAtLast == LastRequested = ntimes - 1

Halos == 0..(nhalos - 1)
Slots == 0..(ntimes_out - 1)

\* The documented position of quantity q (0 mstar, 1 sfr, 2 halo mass) of
\* halo h in output slot k.
Entry(k, q, h) == 3 * nhalos * k + q * nhalos + h

\* The interval integrated at timestep i, as the documentation states it.
IntervalAt(i) == IF i = 0 THEN times[0] - (9 * times[0]) \div 10
                 ELSE times[i] - times[i - 1]

SfrOfHaloAt(h, i) == sfr_of(core_mpeak_at_z0[h], redshifts[i], coef)

MhaloOfHaloAt(h, i) == halo_mass_of(core_mpeak_at_z0[h], redshifts[i])

\* Forward-Euler sum of sfr*dt of halo h over timesteps 0..i.
RECURSIVE EulerSum(_, _)
EulerSum(h, i) ==
    IF i < 0 THEN 0 ELSE EulerSum(h, i - 1) + SfrOfHaloAt(h, i) * IntervalAt(i)

\* What the accumulator of halo h held when the call started.
AccumulatorIn(h) == results_in[Entry(ntimes_out - 1, 0, h)]

C2_EulerSum ==
    (Done /\ ZeroInit /\ EndsAtLast) =>
        /\ \A k \in Slots, h \in Halos :
              results[Entry(k, 0, h)] = EulerSum(h, output_indices[k])
        /\ ntimes = 1 =>
              \A h \in Halos :
                  10 * results[Entry(0, 0, h)] = SfrOfHaloAt(h, 0) * times[0]

C2_Witness ==
    /\ Done /\ ZeroInit /\ EndsAtLast
    /\ ntimes = 1
    /\ results[Entry(0, 0, 0)] > 0

\* C3 as stated: during one call every entry of the results buffer is
\* written exactly once.
C3_WrittenOnce ==
    Done => \A i \in DOMAIN results : nwrites[i] = 1

\* C3 amended: at return every entry outside the last slot's stellar-mass
\* sub-block has been written exactly once; every entry of that sub-block,
\* which is the running accumulator, has been written ntimes+1 times (the +=
\* of every timestep and the copy onto itself at its snapshot).
C3_WrittenOnceExceptAccumulator ==
    Done =>
        \A k \in Slots, q \in 0..2, h \in Halos :
            nwrites[Entry(k, q, h)] =
                IF k = ntimes_out - 1 /\ q = 0 THEN ntimes + 1 ELSE 1

C3_Witness ==
    /\ Done
    /\ ntimes = 3 /\ ntimes_out = 2 /\ nhalos = 2
    /\ nwrites[Entry(1, 0, 1)] = 4
    /\ nwrites[Entry(0, 0, 1)] = 1

\* C4 as stated: when the last requested index is below ntimes-1, at return
\* the stellar-mass entry of the last slot holds the cumulative stellar mass
\* through timestep output_indices[ntimes_out-1] only.
C4_LaterStepsDropped ==
    (Done /\ ZeroInit /\ ~EndsAtLast) =>
        \A h \in Halos :
            results[Entry(ntimes_out - 1, 0, h)] = EulerSum(h, LastRequested)

\* C5: for a fixed halo, with times strictly increasing, a zeroed buffer and
\* every SFR >= 0, the stellar-mass entries of successive slots are
\* non-decreasing at return.
C5_MstarMonotone ==
    (/\ Done /\ ZeroInit
     /\ StrictlyIncreasing(times)
     /\ \A h \in Halos, i \in DOMAIN times : SfrOfHaloAt(h, i) >= 0) =>
        \A h \in Halos, k1, k2 \in Slots :
            k1 < k2 => results[3 * nhalos * k1 + h] <= results[3 * nhalos * k2 + h]

C5_Witness ==
    /\ Done /\ ZeroInit
    /\ ntimes_out = 3
    /\ results[Entry(0, 0, 0)] < results[Entry(1, 0, 0)]
    /\ results[Entry(1, 0, 0)] < results[Entry(2, 0, 0)]

\* The halos lo..hi of the population, as a population of their own.
SubPopulation(lo, hi) == [h \in 0..(hi - lo) |-> core_mpeak_at_z0[lo + h]]

\* A separate call on the halos lo..hi with a zeroed buffer.
RunAlone(lo, hi) ==
    run(ZeroBuf(hi - lo + 1, ntimes_out), SubPopulation(lo, hi),
        times, redshifts, output_indices, coef)

\* C6: halo independence.  A call on the concatenation of two populations
\* (zeroed buffer) gives every halo, in every slot and for every quantity,
\* the value that separate calls on each population give it; in particular
\* the value a call on that halo alone gives.
C6_HaloIndependence ==
    (Done /\ ZeroInit) =>
        /\ \A s \in 1..(nhalos - 1) :
              LET ra == RunAlone(0, s - 1)
                  rb == RunAlone(s, nhalos - 1)
              IN  \A k \in Slots, q \in 0..2, h \in Halos :
                      results[Entry(k, q, h)] =
                          IF h < s THEN ra[3 * s * k + q * s + h]
                          ELSE rb[3 * (nhalos - s) * k + q * (nhalos - s) + (h - s)]
        /\ \A h \in Halos :
              LET r1 == RunAlone(h, h)
              IN  \A k \in Slots, q \in 0..2 :
                      results[Entry(k, q, h)] = r1[3 * k + q]

C6_Witness ==
    /\ Done /\ ZeroInit
    /\ nhalos = 2 /\ ntimes_out = 2
    /\ core_mpeak_at_z0[0] # core_mpeak_at_z0[1]
    /\ results[Entry(1, 0, 0)] # results[Entry(1, 0, 1)]

\* C7 as stated: for output_indices strictly increasing within [0, ntimes),
\* every read of output_indices (line 68, at the head of every timestep)
\* uses a cursor iout in [0, ntimes_out).
C7_CursorInRange ==
    (pc = "time" /\ itime < ntimes) => iout \in 0..(ntimes_out - 1)

\* C8: the buffer indices touched while processing different halos are
\* disjoint, and with the halo iterations of a timestep interleaved in any
\* way the buffer at return is the one of the sequential order.
C8_HalosDisjoint ==
    /\ \A h1, h2 \in Halos : h1 # h2 => accessed[h1] \cap accessed[h2] = {}
    /\ Done => results = run(results_in, core_mpeak_at_z0, times, redshifts,
                             output_indices, coef)

C8_Witness ==
    /\ pc = "halo"
    /\ nhalos = 2
    /\ itime = 1
    /\ hpc[0] = "load" /\ hpc[1] = "end"
    /\ is_output_step(itime, next_output_indx)
    /\ Cardinality(accessed[1]) >= 4

\* Slot k's entry of halo h has been snapshot: timestep output_indices[k] is
\* over, or is under way and past halo h.
Snapshotted(k, h) ==
    \/ itime > output_indices[k]
    \/ itime = output_indices[k] /\ pc = "halo" /\ ihalo > h

\* The snapshot of slot k's entry of halo h is still to come.
NotYetSnapshotted(k, h) ==
    \/ itime < output_indices[k]
    \/ itime = output_indices[k] /\ (pc = "time" \/ ihalo <= h)

\* C9: once the three entries of a slot other than the last are written (at
\* timestep output_indices[k]) no later step changes them; the sfr and halo
\* mass entries of the last slot keep their initial value until timestep
\* output_indices[ntimes_out-1]; and a step of a timestep that is not an
\* output step changes the last slot's stellar-mass entry of its halo and
\* nothing else.
C9_SnapshotStable ==
    /\ [][\A k \in Slots, q \in 0..2, h \in Halos :
             (k < ntimes_out - 1 /\ Snapshotted(k, h)) =>
                 results'[Entry(k, q, h)] = results[Entry(k, q, h)]]_vars
    /\ [][\A q \in 1..2, h \in Halos :
             NotYetSnapshotted(ntimes_out - 1, h)' =>
                 results'[Entry(ntimes_out - 1, q, h)]
                     = results_in[Entry(ntimes_out - 1, q, h)]]_vars
    /\ [][(pc = "halo" /\ ihalo < nhalos /\ itime # next_output_indx) =>
             \A i \in DOMAIN results :
                 (results'[i] # results[i]) <=> (i = Entry(ntimes_out - 1, 0, ihalo))]_vars

C9_Witness ==
    /\ ntimes_out = 2 /\ nhalos = 2
    /\ pc = "halo" /\ ihalo = 2
    /\ itime > output_indices[0]
    /\ itime < output_indices[1]
    /\ results[Entry(0, 0, 1)] # results[Entry(1, 0, 1)]
    /\ results[Entry(1, 1, 1)] = results_in[Entry(1, 1, 1)]
    /\ results[Entry(0, 1, 1)] # results_in[Entry(0, 1, 1)]

\* The call on the same inputs with a zeroed buffer.
RunZeroed ==
    run(ZeroBuf(nhalos, ntimes_out), core_mpeak_at_z0, times, redshifts,
        output_indices, coef)

\* C10: the function does not zero the buffer.  With valid output_indices
\* ending at ntimes-1 the sfr and halo-mass entries are what a zeroed buffer
\* gives, while every stellar-mass snapshot of halo h is what a zeroed buffer
\* gives plus the initial value of results[3*nhalos*(ntimes_out-1) + h].
C10_InitialContents ==
    (Done /\ EndsAtLast) =>
        \A k \in Slots, h \in Halos :
            /\ results[Entry(k, 0, h)]
                  = RunZeroed[Entry(k, 0, h)]
                      + results_in[3 * nhalos * (ntimes_out - 1) + h]
            /\ results[Entry(k, 1, h)] = RunZeroed[Entry(k, 1, h)]
            /\ results[Entry(k, 2, h)] = RunZeroed[Entry(k, 2, h)]

C10_Witness ==
    /\ Done /\ EndsAtLast
    /\ ~ZeroInit
    /\ ntimes_out = 2 /\ nhalos = 2
    /\ results[Entry(0, 0, 1)] > results_in[Entry(1, 0, 1)]
    /\ results_in[Entry(1, 0, 1)] # results_in[Entry(0, 0, 1)]

====
